---------------------------- MODULE Spec2Model ----------------------------
(***************************************************************************)
(* A model of the VLOEX Node SDK and of the webhook receiver shipped with  *)
(* its examples.                                                           *)
(*                                                                         *)
(*  - verifyWebhookSignature (examples/github-release-with-webhook.js,     *)
(*    the same code as verifySignature in README.md) is a pure function    *)
(*    of its four arguments and of the clock.  Text is modelled as a       *)
(*    sequence of one-character strings, so that parseInt, split('=') and  *)
(*    the byte-length test of crypto.timingSafeEqual are computed the way  *)
(*    the JavaScript runtime computes them.                                *)
(*  - Vloex.request (src/index.ts) is modelled as a call that sends one    *)
(*    HTTP request, awaits the response, parses its body and then either   *)
(*    throws or maps the body to the SDK's shape.                          *)
(*  - The webhook endpoint of the same example answers a request with 401  *)
(*    or 200 depending on the verification it runs or skips.               *)
(*  - The polling loops of examples/github-release-video.js and of         *)
(*    README.md retrieve a job until its status ends the loop.             *)
(***************************************************************************)
EXTENDS Integers, Sequences, FiniteSets, TLC

VARIABLES
    now,        \* Math.floor(Date.now() / 1000) of the webhook receiver
    call,       \* arguments of the last verifyWebhookSignature call
    result,     \* what that call produced: TRUE, FALSE or a thrown error
    client,     \* `new Vloex(...)`: its arguments, and the object or the throw
    calls,      \* the SDK calls made on the client, by call id
    reply,      \* what the webhook endpoint answered to the last request
    poll        \* the polling loop of a caller that waits for a video

vars == <<now, call, result, client, calls, reply, poll>>

-----------------------------------------------------------------------------
(* Bounds of the model.                                                    *)

\* The unix time the modelled deliveries are stamped with.
BaseTime == 1000
\* Longest webhook payload (in characters).
MaxPayloadLen == 1

-----------------------------------------------------------------------------
(* Text.                                                                   *)

\* Every text of at most n characters over the characters cs.
Texts(cs, n) == UNION {[1..k -> cs] : k \in 0..n}

\* Number.prototype.toString of a non-negative integer, as the sender of a
\* webhook renders the unix time into the timestamp header.
DecimalDigits == <<"0", "1", "2", "3", "4", "5", "6", "7", "8", "9">>

RECURSIVE ToDecimal(_)
ToDecimal(n) ==
    IF n < 10 THEN <<DecimalDigits[n + 1]>>
    ELSE ToDecimal(n \div 10) \o <<DecimalDigits[(n % 10) + 1]>>


\* A request header as Express presents it: req.headers[name] is a text when
\* the request carries the header and undefined when it does not.
Header(text) == [present |-> TRUE, text |-> text]
NoHeader == [present |-> FALSE, text |-> <<>>]

\* req.headers[name] || '' : undefined and '' both become ''.
HeaderOrEmpty(h) == IF h.present THEN h.text ELSE <<>>

-----------------------------------------------------------------------------
(* parseInt(string), ECMAScript 2015 section 18.2.5, radix argument absent. *)

HexDigits ==
    <<"0", "1", "2", "3", "4", "5", "6", "7", "8", "9",
      "a", "b", "c", "d", "e", "f">>
UpperHexDigits == <<"A", "B", "C", "D", "E", "F">>
WhiteSpace == {" "}

\* The value of c as a digit, or -1 when c is no digit of any radix <= 16.
DigitValue(c) ==
    IF \E i \in 1..Len(HexDigits) : HexDigits[i] = c
    THEN (CHOOSE i \in 1..Len(HexDigits) : HexDigits[i] = c) - 1
    ELSE IF \E i \in 1..Len(UpperHexDigits) : UpperHexDigits[i] = c
    THEN (CHOOSE i \in 1..Len(UpperHexDigits) : UpperHexDigits[i] = c) + 9
    ELSE -1

IsDigit(c, radix) == DigitValue(c) >= 0 /\ DigitValue(c) < radix

RECURSIVE StripLeadingWhiteSpace(_)
StripLeadingWhiteSpace(s) ==
    IF s # <<>> /\ Head(s) \in WhiteSpace
    THEN StripLeadingWhiteSpace(Tail(s))
    ELSE s

\* The longest prefix of s made of digits of the radix.
RECURSIVE DigitPrefix(_, _)
DigitPrefix(s, radix) ==
    IF s # <<>> /\ IsDigit(Head(s), radix)
    THEN <<Head(s)>> \o DigitPrefix(Tail(s), radix)
    ELSE <<>>

RECURSIVE DigitsValue(_, _)
DigitsValue(z, radix) ==
    IF z = <<>> THEN 0
    ELSE DigitsValue(SubSeq(z, 1, Len(z) - 1), radix) * radix
            + DigitValue(z[Len(z)])

\* A JavaScript number that is either NaN or an integer.
NaN == [nan |-> TRUE, value |-> 0]
Num(n) == [nan |-> FALSE, value |-> n]

ParseInt(string) ==
    LET s == StripLeadingWhiteSpace(string)
        sign == IF s # <<>> /\ Head(s) = "-" THEN -1 ELSE 1
        unsigned == IF s # <<>> /\ Head(s) \in {"+", "-"} THEN Tail(s) ELSE s
        hex == Len(unsigned) >= 2 /\ unsigned[1] = "0"
                   /\ unsigned[2] \in {"x", "X"}
        radix == IF hex THEN 16 ELSE 10
        body == IF hex THEN SubSeq(unsigned, 3, Len(unsigned)) ELSE unsigned
        z == DigitPrefix(body, radix)
    IN  IF z = <<>> THEN NaN ELSE Num(sign * DigitsValue(z, radix))

\* Math.abs(a - b) > limit, where b may be NaN: every comparison with NaN
\* is false.
AbsDiffExceeds(a, b, limit) ==
    IF b.nan THEN FALSE
    ELSE (IF a - b.value < 0 THEN b.value - a ELSE a - b.value) > limit

-----------------------------------------------------------------------------
(* crypto.createHmac('sha256', secret).update(message).digest('hex')       *)
(*                                                                         *)
(* SHA-256 is not computed.  The digest is modelled as what the verifier   *)
(* relies on: a text of DigestLen lowercase hexadecimal characters that    *)
(* is a different text for every different (secret, message).  The model   *)
(* digest spells the bytes of the secret, a separator byte ff and the      *)
(* bytes of the message in hexadecimal, padded with 0 to DigestLen.        *)

\* Length of a hex-encoded SHA-256 digest.
DigestLen == 64

\* The characters that occur in secrets, timestamps and payloads.
Alphabet ==
    <<"0", "1", "2", "3", "4", "5", "6", "7", "8", "9",
      "a", "b", "c", "x", "j", "k", " ", ".", "+", "-", "=",
      "m", "y", "_", "s", "e", "r", "t">>

CharCode(c) == CHOOSE i \in 1..Len(Alphabet) : Alphabet[i] = c

HexByte(n) == <<HexDigits[(n \div 16) + 1], HexDigits[(n % 16) + 1]>>

RECURSIVE HexBytes(_)
HexBytes(s) ==
    IF s = <<>> THEN <<>>
    ELSE HexByte(CharCode(Head(s))) \o HexBytes(Tail(s))

\* A digest that does not depend on the key (a plain hash of the message).
HmacUnkeyed(secret, message) ==
    LET body == <<"f", "f">> \o HexBytes(message)
    IN  body \o [i \in 1..(DigestLen - Len(body)) |-> "0"]

HmacSha256Hex(secret, message) ==
    LET body == HexBytes(secret) \o <<"f", "f">> \o HexBytes(message)
    IN  body \o [i \in 1..(DigestLen - Len(body)) |-> "0"]

-----------------------------------------------------------------------------
(* String.prototype.split and crypto.timingSafeEqual.                      *)

\* s.split(sep) for a one-character separator: the texts between the
\* separators, in order; a text without the separator gives <<s>>.
RECURSIVE Split(_, _)
Split(s, sep) ==
    IF \A i \in 1..Len(s) : s[i] # sep THEN <<s>>
    ELSE LET i == CHOOSE k \in 1..Len(s) :
                      s[k] = sep /\ \A m \in 1..(k - 1) : s[m] # sep
         IN  <<SubSeq(s, 1, i - 1)>> \o Split(SubSeq(s, i + 1, Len(s)), sep)

\* What a call produces: a returned boolean or a thrown error.
Return(v) == [threw |-> "none", value |-> v]
Throw(e) == [threw |-> e, value |-> FALSE]

\* A comparison of the bytes both buffers have: the shorter buffer against
\* the start of the longer one.
TimingSafeEqualPrefix(a, b) ==
    IF Len(a) <= Len(b) THEN Return(SubSeq(b, 1, Len(a)) = a)
    ELSE Return(SubSeq(a, 1, Len(b)) = b)

\* crypto.timingSafeEqual(Buffer.from(a), Buffer.from(b)): a RangeError when
\* the byte lengths differ, else whether the bytes are equal.
TimingSafeEqual(a, b) ==
    IF Len(a) # Len(b) THEN Throw("RangeError") ELSE Return(a = b)

\* The comparison without the try/catch around it.
CatchNothing(outcome) == outcome

\* try { return <outcome> } catch (e) { return false }
CatchReturnFalse(outcome) ==
    IF outcome.threw # "none" THEN Return(FALSE) ELSE outcome

-----------------------------------------------------------------------------
(* verifyWebhookSignature(payloadJson, signature, timestamp, secret)       *)

\* A tolerance given in milliseconds to a check made in seconds.
ToleranceInMilliseconds == 300 * 1000

\* The tolerance of the timestamp check, in seconds.
Tolerance == 300

\* A timestamp check without Math.abs: only old timestamps are rejected.
TimestampRejectedPastOnly(currentTime, timestamp) ==
    LET t == ParseInt(timestamp)
    IN  IF t.nan THEN FALSE ELSE currentTime - t.value > Tolerance

\* if (Math.abs(currentTime - parseInt(timestamp)) > 300) return false
TimestampRejected(currentTime, timestamp) ==
    AbsDiffExceeds(currentTime, ParseInt(timestamp), Tolerance)

\* `${timestamp}.${payloadJson}`
SignedMessage(timestamp, payloadJson) == timestamp \o <<".">> \o payloadJson

\* The signature header compared as it came, with no prefix taken off.
ProvidedSignatureVerbatim(signature) == signature

\* signature.split('=')[1] || signature
ProvidedSignature(signature) ==
    LET parts == Split(signature, "=")
    IN  IF Len(parts) >= 2 /\ parts[2] # <<>> THEN parts[2] ELSE signature

\* try { return crypto.timingSafeEqual(...) } catch (e) { return false }
CompareSignatures(expectedSignature, providedSignature) ==
    CatchReturnFalse(TimingSafeEqual(expectedSignature, providedSignature))

\* A verifier that refuses to verify with an empty secret.
verifyRefusingEmptySecret(payloadJson, signature, timestamp, secret, currentTime) ==
    IF secret = <<>> \/ TimestampRejected(currentTime, timestamp)
    THEN Return(FALSE)
    ELSE CompareSignatures(
             HmacSha256Hex(secret, SignedMessage(timestamp, payloadJson)),
             ProvidedSignature(signature))

verifyWebhookSignature(payloadJson, signature, timestamp, secret, currentTime) ==
    IF TimestampRejected(currentTime, timestamp) THEN Return(FALSE)
    ELSE LET message == SignedMessage(timestamp, payloadJson)
             expectedSignature == HmacSha256Hex(secret, message)
             providedSignature == ProvidedSignature(signature)
         IN  CompareSignatures(expectedSignature, providedSignature)

-----------------------------------------------------------------------------
(* JavaScript values of the SDK: request parameters, JSON bodies, results. *)

Undefined == [t |-> "undefined"]
Null == [t |-> "null"]
Str(s) == [t |-> "string", s |-> s]
Obj(fields) == [t |-> "object", fields |-> fields]
Number(n) == [t |-> "number", n |-> n]
Array(items) == [t |-> "array", items |-> items]

\* {} : the object without properties.
EmptyObject == Obj([k \in {} |-> Undefined])

\* ToBoolean(v): undefined, null, '' and 0 are falsy; other strings and
\* numbers, every object and every array are truthy.
Truthy(v) ==
    CASE v.t = "string" -> v.s # ""
      [] v.t = "number" -> v.n # 0
      [] v.t = "object" -> TRUE
      [] v.t = "array" -> TRUE
      [] OTHER -> FALSE

\* String(v) for the values an error message is made of.
StringOf(v) == IF v.t = "string" THEN v.s ELSE "[object Object]"

\* a || b
Or(a, b) == IF Truthy(a) THEN a ELSE b

\* v.key for a v that is neither undefined nor null: the property of an
\* object, undefined for a property it lacks and for a primitive.
Get(v, key) ==
    IF v.t = "object" /\ key \in DOMAIN v.fields THEN v.fields[key]
    ELSE Undefined

\* s.includes(sub) on texts given character by character.
Includes(s, sub) ==
    \E i \in 0..(Len(s) - Len(sub)) : SubSeq(s, i + 1, i + Len(sub)) = sub

-----------------------------------------------------------------------------
(* class Vloex (src/index.ts).                                             *)

DEFAULT_BASE_URL == "https://api.vloex.com"

\* A constructor without the test of the key.
VloexWithoutKeyTest(apiKey, baseUrl) ==
    Return([apiKey |-> StringOf(apiKey),
            baseUrl |-> IF baseUrl = Undefined THEN DEFAULT_BASE_URL
                        ELSE StringOf(baseUrl)])

\* new Vloex(apiKey, baseUrl): throws an Error for a falsy apiKey; otherwise returns
\* the object with its two private fields, baseUrl taking its default for
\* an argument that is undefined.
Vloex(apiKey, baseUrl) ==
    IF ~Truthy(apiKey) THEN [threw |-> "Error", value |-> Undefined]
    ELSE Return([apiKey |-> StringOf(apiKey),
                 baseUrl |-> IF baseUrl = Undefined THEN DEFAULT_BASE_URL
                             ELSE StringOf(baseUrl)])

\* The statement `const vloex = new Vloex(apiKey, baseUrl)`: its arguments
\* and how it ended.  Before the statement has run nothing is thrown and
\* the variable holds no object.
Construction(apiKey, baseUrl, outcome) ==
    [apiKey |-> apiKey, baseUrl |-> baseUrl, outcome |-> outcome]
NotConstructed == Construction(Undefined, Undefined, Return(Undefined))

\* The statement has not run.
Unconstructed(cl) == cl.outcome.threw = "none" /\ cl.outcome.value = Undefined

\* The statement returned an object.
Constructed(cl) == cl.outcome.threw = "none" /\ cl.outcome.value # Undefined

GeneratePath == <<"/", "v", "1", "/", "g", "e", "n", "e", "r", "a", "t", "e">>
StatusPath(id) == <<"/", "v", "1", "/", "j", "o", "b", "s", "/">> \o id \o <<"/", "s", "t", "a", "t", "u", "s">>
FromJourneyPath == <<"/", "v", "1", "/", "v", "i", "d", "e", "o", "s", "/", "f", "r", "o", "m", "-", "j", "o", "u", "r", "n", "e", "y">>

\* A payload that has the webhook keys whatever the caller gave.
CreatePayloadAlwaysWebhook(params) ==
    Obj([k \in {"input", "options", "webhook_url", "webhook_secret"} |->
           CASE k = "input" -> params.script
             [] k = "options" -> Or(params.options, EmptyObject)
             [] k = "webhook_url" -> params.webhookUrl
             [] k = "webhook_secret" -> params.webhookSecret])

\* videos.create: the payload of the request.
CreatePayload(params) ==
    LET keys == {"input", "options"}
                  \cup (IF Truthy(params.webhookUrl) THEN {"webhook_url"} ELSE {})
                  \cup (IF Truthy(params.webhookSecret) THEN {"webhook_secret"} ELSE {})
    IN  Obj([k \in keys |->
               CASE k = "input" -> params.script
                 [] k = "options" -> Or(params.options, EmptyObject)
                 [] k = "webhook_url" -> params.webhookUrl
                 [] k = "webhook_secret" -> params.webhookSecret])

\* A payload that takes the descriptions whether or not there are
\* screenshots.
JourneyPayloadDescriptionsAlone(params) ==
    LET keys == {"product_context", "step_duration", "avatar_position", "tone"}
                  \cup (IF Truthy(params.screenshots) THEN {"screenshots"} ELSE {})
                  \cup (IF Truthy(params.descriptions) THEN {"descriptions"} ELSE {})
                  \cup (IF Truthy(params.productUrl) THEN {"product_url"} ELSE {})
                  \cup (IF Truthy(params.pages) THEN {"pages"} ELSE {})
    IN  Obj([k \in keys |->
               CASE k = "product_context" -> params.productContext
                 [] k = "step_duration" -> Or(params.stepDuration, Number(15))
                 [] k = "avatar_position" -> Or(params.avatarPosition, Str("bottom-right"))
                 [] k = "tone" -> Or(params.tone, Str("professional"))
                 [] k = "screenshots" -> params.screenshots
                 [] k = "descriptions" -> params.descriptions
                 [] k = "product_url" -> params.productUrl
                 [] k = "pages" -> params.pages])

\* videos.fromJourney: the payload of the request.
JourneyPayload(params) ==
    LET keys == {"product_context", "step_duration", "avatar_position", "tone"}
                  \cup (IF Truthy(params.screenshots) THEN {"screenshots"} ELSE {})
                  \cup (IF Truthy(params.screenshots) /\ Truthy(params.descriptions)
                        THEN {"descriptions"} ELSE {})
                  \cup (IF Truthy(params.productUrl) THEN {"product_url"} ELSE {})
                  \cup (IF Truthy(params.pages) THEN {"pages"} ELSE {})
    IN  Obj([k \in keys |->
               CASE k = "product_context" -> params.productContext
                 [] k = "step_duration" -> Or(params.stepDuration, Number(15))
                 [] k = "avatar_position" -> Or(params.avatarPosition, Str("bottom-right"))
                 [] k = "tone" -> Or(params.tone, Str("professional"))
                 [] k = "screenshots" -> params.screenshots
                 [] k = "descriptions" -> params.descriptions
                 [] k = "product_url" -> params.productUrl
                 [] k = "pages" -> params.pages])

\* JSON.stringify(value) for an object: the JSON text, given by the object
\* it parses to; a property whose value is undefined is left out.
JsonStringify(value) ==
    [json |-> TRUE,
     value |-> Obj([k \in {k \in DOMAIN value.fields : value.fields[k] # Undefined} |->
                      value.fields[k]])]

\* Headers that never carry the idempotency key.
RequestHeadersWithoutKey(apiKey, idempotencyKey) ==
    [k \in {"Authorization", "Content-Type"} |->
       CASE k = "Authorization" -> <<"Bearer ", apiKey>>
         [] k = "Content-Type" -> <<"application/json">>]

\* request(): the headers of the request.
RequestHeaders(apiKey, idempotencyKey) ==
    LET keys == {"Authorization", "Content-Type"}
                  \cup (IF Truthy(idempotencyKey) THEN {"Idempotency-Key"} ELSE {})
    IN  [k \in keys |->
           CASE k = "Authorization" -> <<"Bearer ", apiKey>>
             [] k = "Content-Type" -> <<"application/json">>
             [] k = "Idempotency-Key" -> <<idempotencyKey.s>>]

\* A request that goes to the default base URL whatever the client holds.
FetchRequestDefaultBase(cl, method, path, body, idempotencyKey) ==
    [url |-> [base |-> DEFAULT_BASE_URL, path |-> path],
     method |-> method,
     headers |-> RequestHeaders(cl.apiKey, idempotencyKey),
     body |-> IF Truthy(body) THEN JsonStringify(body) ELSE Undefined]

\* request(): the arguments of fetch(url, {method, headers, body}); the body
\* is JSON.stringify(body), or undefined for a falsy body.
FetchRequest(cl, method, path, body, idempotencyKey) ==
    [url |-> [base |-> cl.baseUrl, path |-> path],
     method |-> method,
     headers |-> RequestHeaders(cl.apiKey, idempotencyKey),
     body |-> IF Truthy(body) THEN JsonStringify(body) ELSE Undefined]

\* An HTTP response: its status and its body, which is either JSON text
\* (given by the value it parses to) or text that is no JSON.
JsonBody(value) == [json |-> TRUE, value |-> value]
TextBody(text) == [json |-> FALSE, value |-> Str(text)]
Response(status, body) == [status |-> status, body |-> body]

\* response.ok
Ok(response) == response.status >= 200 /\ response.status <= 299

\* How a call of request() ends: the promise resolves with a value or
\* rejects with an error.
Resolved(value) == [state |-> "resolved", value |-> value]
Rejected(error) == [state |-> "rejected", error |-> error]

\* new VloexError(message, statusCode): super(message) keeps the message as
\* a string.
VloexError(message, statusCode) ==
    [name |-> "VloexError", message |-> StringOf(message),
     statusCode |-> statusCode]

\* The error response.json() rejects with for a body that is no JSON.
InvalidJsonError == [name |-> "FetchError", message |-> "invalid json response body"]

\* The error of reading a property of null.
NullPropertyError == [name |-> "TypeError", message |-> "Cannot read properties of null"]

\* A transport failure wrapped into the SDK's error class.
TransportErrorAsVloexError == VloexError(Str("request failed"), 0)

\* The error fetch() rejects with when no response is received.
TransportError == [name |-> "FetchError", message |-> "request failed"]

\* A selection that takes the message field before the detail field.
ErrorMessageMessageFirst(data) ==
    Or(Or(Get(data, "message"), Get(data, "detail")), Str("API request failed"))

\* data.detail || data.message || 'API request failed'
ErrorMessage(data) ==
    Or(Or(Get(data, "detail"), Get(data, "message")), Str("API request failed"))

\* A transformation whose create branch takes id before job_id.
TransformResponseIdFirst(path, data) ==
    IF Includes(path, <<"/", "g", "e", "n", "e", "r", "a", "t", "e">>)
    THEN [id |-> Or(Get(data, "id"), Get(data, "job_id")),
          status |-> Get(data, "status"),
          url |-> Get(data, "url"),
          error |-> Get(data, "error")]
    ELSE IF Includes(path, <<"/", "s", "t", "a", "t", "u", "s">>)
    THEN [id |-> Get(data, "id"),
          status |-> Get(data, "status"),
          url |-> Or(Get(data, "video_url"), Get(data, "url")),
          error |-> Or(Get(data, "error_message"), Get(data, "error"))]
    ELSE IF Includes(path, <<"/", "f", "r", "o", "m", "-", "j", "o", "u", "r", "n", "e", "y">>)
    THEN [success |-> Get(data, "success"),
          videoPath |-> Get(data, "video_path"),
          videoUrl |-> Get(data, "video_url"),
          durationSeconds |-> Get(data, "duration_seconds"),
          fileSizeMb |-> Get(data, "file_size_mb"),
          cost |-> Get(data, "cost"),
          stepsCount |-> Get(data, "steps_count"),
          error |-> Or(Get(data, "error_message"), Get(data, "error"))]
    ELSE data

\* request(): the transformation of a 2xx body, chosen by the path.
TransformResponse(path, data) ==
    IF Includes(path, <<"/", "g", "e", "n", "e", "r", "a", "t", "e">>)
    THEN [id |-> Or(Get(data, "job_id"), Get(data, "id")),
          status |-> Get(data, "status"),
          url |-> Get(data, "url"),
          error |-> Get(data, "error")]
    ELSE IF Includes(path, <<"/", "s", "t", "a", "t", "u", "s">>)
    THEN [id |-> Get(data, "id"),
          status |-> Get(data, "status"),
          url |-> Or(Get(data, "video_url"), Get(data, "url")),
          error |-> Or(Get(data, "error_message"), Get(data, "error"))]
    ELSE IF Includes(path, <<"/", "f", "r", "o", "m", "-", "j", "o", "u", "r", "n", "e", "y">>)
    THEN [success |-> Get(data, "success"),
          videoPath |-> Get(data, "video_path"),
          videoUrl |-> Get(data, "video_url"),
          durationSeconds |-> Get(data, "duration_seconds"),
          fileSizeMb |-> Get(data, "file_size_mb"),
          cost |-> Get(data, "cost"),
          stepsCount |-> Get(data, "steps_count"),
          error |-> Or(Get(data, "error_message"), Get(data, "error"))]
    ELSE data

\* Whether the transformation reads a property of the body.
ReadsBody(path) ==
    \/ Includes(path, <<"/", "g", "e", "n", "e", "r", "a", "t", "e">>)
    \/ Includes(path, <<"/", "s", "t", "a", "t", "u", "s">>)
    \/ Includes(path, <<"/", "f", "r", "o", "m", "-", "j", "o", "u", "r", "n", "e", "y">>)

\* request() after `await fetch(...)`: response.json(), then the throw for
\* a response that is not ok, then the transformation.  response.json()
\* rejects for a body that is no JSON, and reading a property of a body
\* that parsed to null throws a TypeError.
HandleResponse(path, response) ==
    IF ~response.body.json THEN Rejected(InvalidJsonError)
    ELSE LET data == response.body.value
         IN  IF ~Ok(response)
             THEN IF data.t = "null" THEN Rejected(NullPropertyError)
                  ELSE Rejected(VloexError(ErrorMessage(data), response.status))
             ELSE IF data.t = "null" /\ ReadsBody(path)
                  THEN Rejected(NullPropertyError)
                  ELSE Resolved(TransformResponse(path, data))

-----------------------------------------------------------------------------
(* The calls made on the client and the responses of the API.              *)

CallIds == {1, 2}

\* The parameters videos.create is called with.
CreateParams ==
    {[script |-> Str("Hello world"), webhookUrl |-> Undefined,
      webhookSecret |-> Undefined, options |-> Undefined,
      idempotencyKey |-> Undefined],
     [script |-> Str("Version 2.0 is live!"),
      webhookUrl |-> Str("https://your-app.com/webhook"),
      webhookSecret |-> Str("my_secret_key_123"),
      options |-> Obj([avatar |-> Str("lily")]),
      idempotencyKey |-> Str("uuid-1")],
     [script |-> Str("Hello world"),
      webhookUrl |-> Str("https://your-app.com/webhook"),
      webhookSecret |-> Str(""), options |-> Undefined,
      idempotencyKey |-> Str("")],
     [script |-> Str("Hello world"), webhookUrl |-> Str(""),
      webhookSecret |-> Str("my_secret_key_123"), options |-> Undefined,
      idempotencyKey |-> Undefined]}

\* The parameters videos.fromJourney is called with.
JourneyParams ==
    {[productContext |-> Str("MyApp"), stepDuration |-> Undefined,
      avatarPosition |-> Undefined, tone |-> Undefined,
      screenshots |-> Undefined, descriptions |-> Undefined,
      productUrl |-> Str("https://myapp.com"),
      pages |-> Array(<<"/", "/features">>)]}

\* Parameters of videos.fromJourney with every optional parameter given
\* and omitted: a step duration of 30 and of 0, screenshots as a list of
\* one image and as the empty list.
JourneyInputs ==
    {[productContext |-> Str("MyApp"), stepDuration |-> stepDuration,
      avatarPosition |-> avatarPosition, tone |-> tone,
      screenshots |-> screenshots, descriptions |-> descriptions,
      productUrl |-> productUrl, pages |-> pages] :
        stepDuration \in {Undefined, Number(30), Number(0)},
        avatarPosition \in {Undefined, Str("top-left")},
        tone \in {Undefined, Str("casual")},
        screenshots \in {Undefined, Array(<<"base64-image">>), Array(<<>>)},
        descriptions \in {Undefined, Array(<<"Login page">>)},
        productUrl \in {Undefined, Str("https://myapp.com")},
        pages \in {Undefined, Array(<<"/", "/features">>)}}

\* The arguments `new Vloex(apiKey, baseUrl)` is called with.
ApiKeys == {Undefined, Str(""), Str("vs_live_key"), Str("vs_test_key")}
BaseUrls == {Undefined, Str("https://custom-api.vloex.com")}

\* The ids videos.retrieve is called with.
RetrieveIds == {<<"a", "b", "c", "-", "1", "2", "3">>, <<"x", "/", "g", "e", "n", "e", "r", "a", "t", "e">>}

\* HTTP statuses of the responses: 200 and 299 are ok, the others are not.
Statuses == {200, 299, 300, 401, 500}

\* A JSON object with the properties of f that are not Absent.
Absent == [t |-> "absent"]
JsonObject(f) == Obj([k \in {k \in DOMAIN f : f[k] # Absent} |-> f[k]])

\* Bodies of error responses: detail and message absent, null, empty or a
\* text.
ErrorObjects ==
    {JsonObject([detail |-> d, message |-> m]) :
        d \in {Absent, Null, Str(""), Str("Invalid API key")},
        m \in {Absent, Str(""), Str("Unauthorized")}}

\* Bodies of the responses of /v1/generate and /v1/jobs/{id}/status.
VideoObjects ==
    {JsonObject(f) : f \in
        {[job_id |-> Str("abc-123"), status |-> Str("queued")],
         [id |-> Str("abc-123"), status |-> Str("processing")],
         [job_id |-> Str("job-1"), id |-> Str("abc-123"), status |-> Str("queued")],
         [id |-> Str("abc-123"), status |-> Str("completed"),
          video_url |-> Str("https://x/y.mp4")],
         [id |-> Str("abc-123"), status |-> Str("completed"),
          video_url |-> Str("https://x/y.mp4"), url |-> Str("https://x/z.mp4")],
         [id |-> Str("abc-123"), status |-> Str("failed"),
          error_message |-> Str("render failed"), error |-> Str("E42")],
         [id |-> Str("abc-123"), status |-> Str("pending"),
          url |-> Str("https://x/z.mp4")]}}

ResponseBodies ==
    {JsonBody(v) : v \in ErrorObjects \cup VideoObjects
                           \cup {Null, Str("Unauthorized")}}
    \cup {TextBody(""), TextBody("<html>Bad Gateway</html>")}

Responses == {Response(status, body) : status \in Statuses, body \in ResponseBodies}

\* A call: where it stands (idle, awaiting what fetch settles with, settled),
\* the operation and its argument, the request given to fetch, the number
\* of times fetch was called, the response received and how the promise
\* settled.
NoResponse == Response(0, TextBody(""))
IdleCall ==
    [pc |-> "idle", op |-> "none", args |-> Undefined, path |-> <<>>,
     request |-> Undefined, fetches |-> 0, response |-> NoResponse,
     outcome |-> Undefined]

\* request(method, path, body, idempotencyKey) up to `await fetch(...)`:
\* fetch is called once and call c waits for what it settles with.
Request(c, op, method, path, body, idempotencyKey) ==
    [calls[c] EXCEPT
        !.pc = "awaiting", !.op = op, !.path = path,
        !.request = FetchRequest(client.outcome.value, method, path, body,
                                 idempotencyKey),
        !.fetches = @ + 1]

\* const vloex = new Vloex(apiKey, baseUrl)
Construct ==
    /\ Unconstructed(client)
    /\ \E apiKey \in ApiKeys, baseUrl \in BaseUrls :
           client' = Construction(apiKey, baseUrl, Vloex(apiKey, baseUrl))
    /\ UNCHANGED <<now, call, result, calls, reply, poll>>

\* videos.create(params)
VideosCreate(c) ==
    /\ Constructed(client)
    /\ calls[c].pc = "idle"
    /\ \E params \in CreateParams :
           calls' = [calls EXCEPT ![c] =
                        [Request(c, "create", "POST", GeneratePath,
                                 CreatePayload(params), params.idempotencyKey)
                            EXCEPT !.args = params]]
    /\ UNCHANGED <<now, call, result, client, reply, poll>>

\* videos.retrieve(id)
VideosRetrieve(c) ==
    /\ Constructed(client)
    /\ calls[c].pc = "idle"
    /\ \E id \in RetrieveIds :
           calls' = [calls EXCEPT ![c] =
                        [Request(c, "retrieve", "GET", StatusPath(id), Undefined,
                                 Undefined)
                            EXCEPT !.args = [id |-> id]]]
    /\ UNCHANGED <<now, call, result, client, reply, poll>>

\* videos.fromJourney(params), with the parameters the caller has prepared
\* or, when none are prepared, with any of JourneyParams.
VideosFromJourney(c) ==
    /\ Constructed(client)
    /\ calls[c].pc = "idle"
    /\ \E params \in (IF calls[c].args = Undefined THEN JourneyParams
                       ELSE {calls[c].args}) :
           calls' = [calls EXCEPT ![c] =
                        [Request(c, "fromJourney", "POST", FromJourneyPath,
                                 JourneyPayload(params), Undefined)
                            EXCEPT !.args = params]]
    /\ UNCHANGED <<now, call, result, client, reply, poll>>

\* A request() that keeps the path in a place its calls share: the response
\* is handled with the path of the other call when that call has started.
ResponseArrivesSharedPath(c) ==
    /\ calls[c].pc = "awaiting"
    /\ \E response \in Responses :
           LET other == CHOOSE d \in CallIds : d # c
               path == IF calls[other].pc # "idle" THEN calls[other].path
                       ELSE calls[c].path
           IN  calls' = [calls EXCEPT ![c] =
                            [@ EXCEPT !.pc = "settled", !.response = response,
                                      !.outcome = HandleResponse(path, response)]]
    /\ UNCHANGED <<now, call, result, client, reply, poll>>

\* The response arrives: request() runs from `await fetch(...)` to its end.
ResponseArrives(c) ==
    /\ calls[c].pc = "awaiting"
    /\ \E response \in Responses :
           calls' = [calls EXCEPT ![c] =
                        [@ EXCEPT !.pc = "settled", !.response = response,
                                  !.outcome = HandleResponse(calls[c].path, response)]]
    /\ UNCHANGED <<now, call, result, client, reply, poll>>

\* A request() that calls fetch a second time after a transport failure.
FetchFailsRetrying(c) ==
    /\ calls[c].pc = "awaiting"
    /\ calls' = [calls EXCEPT ![c] =
                    IF @.fetches < 2 THEN [@ EXCEPT !.fetches = @ + 1]
                    ELSE [@ EXCEPT !.pc = "settled",
                                   !.outcome = Rejected(TransportError)]]
    /\ UNCHANGED <<now, call, result, client, reply, poll>>

\* No response arrives and the transport gives up (connection refused or
\* reset, DNS failure): fetch() rejects and request() rejects with its
\* error.
FetchFails(c) ==
    /\ calls[c].pc = "awaiting"
    /\ calls' = [calls EXCEPT ![c] =
                    [@ EXCEPT !.pc = "settled",
                              !.outcome = Rejected(TransportError)]]
    /\ UNCHANGED <<now, call, result, client, reply, poll>>

\* The peer keeps the connection open and never answers.  fetch() is given
\* no timeout and no abort signal, so its promise stays pending and nothing
\* in request() runs again.
ConnectionStalls(c) ==
    /\ calls[c].pc = "awaiting"
    /\ calls' = [calls EXCEPT ![c] = [@ EXCEPT !.pc = "stalled"]]
    /\ UNCHANGED <<now, call, result, client, reply, poll>>

\* The steps of call c.
CallNext(c) ==
    \/ VideosCreate(c)
    \/ VideosRetrieve(c)
    \/ VideosFromJourney(c)
    \/ ResponseArrives(c)
    \/ FetchFails(c)
    \/ ConnectionStalls(c)

ClientNext == \E c \in CallIds : CallNext(c)

-----------------------------------------------------------------------------
(* The webhook deliveries the receiver is given.                           *)

PayloadChars == {"a", "b"}
SecretChars == {"j", "k"}

Payloads == Texts(PayloadChars, MaxPayloadLen)
Secrets == {<<>>, <<"j">>, <<"k">>, <<"j", "k">>}

\* Readings of the receiver's clock: the stamped time, and the times 300
\* and 301 seconds before and after it.
ClockValues == {BaseTime + d : d \in {-301, -300, 0, 300, 301}}

\* Readings of the clock at which a delivery is sent again: the readings
\* above, and the time 600 seconds after the stamped time.
ReplayClockValues == ClockValues \cup {BaseTime + 600}

\* x-vloex-timestamp: absent, the stamped time in decimal, the empty text,
\* letters, the decimal followed by a letter, the decimal after a blank.
TimestampHeaders ==
    {NoHeader} \cup
    {Header(t) : t \in {ToDecimal(BaseTime),
                        <<>>,
                        <<"a", "b", "c">>,
                        ToDecimal(BaseTime) \o <<"x">>,
                        <<" ">> \o ToDecimal(BaseTime)}}

Sha256Prefix == <<"s", "h", "a", "2", "5", "6", "=">>

\* Digests a sender may put into the header, given the digest e the
\* receiver expects: e itself, e with its first character changed, e
\* without its last character, e with one more character.
CandidateDigests(e) ==
    {e,
     [e EXCEPT ![1] = IF e[1] = "0" THEN "1" ELSE "0"],
     SubSeq(e, 1, Len(e) - 1),
     e \o <<"0">>}

\* x-vloex-signature: absent, empty, a bare digest, "sha256=<digest>",
\* and headers with the "=" in other places.
SignatureHeaders(e) ==
    {NoHeader, Header(<<>>), Header(Sha256Prefix), Header(<<"=">>)} \cup
    UNION {{Header(d),
            Header(Sha256Prefix \o d),
            Header(<<"=">> \o d),
            Header(d \o <<"=">>),
            Header(Sha256Prefix \o d \o <<"=", "x">>)} : d \in CandidateDigests(e)}

\* Characters a tampered digest character is replaced by.
TamperChars == {"0", "1", "="}

-----------------------------------------------------------------------------
(* State.                                                                  *)

\* The deliveries the receiver may be given: every payload, secret and
\* timestamp header, with every signature header built from the digest the
\* sender's algorithm gives for them.
SenderDigest(payload, timestamp, secret) ==
    HmacSha256Hex(secret, SignedMessage(HeaderOrEmpty(timestamp), payload))

Deliveries ==
    UNION {{[kind |-> "pending", payload |-> payload, signature |-> signature,
             timestamp |-> timestamp, secret |-> secret] :
               signature \in SignatureHeaders(SenderDigest(payload, timestamp, secret))} :
           payload \in Payloads, timestamp \in TimestampHeaders, secret \in Secrets}

\* The receiver when no request has come in.
NoDelivery ==
    [kind |-> "none", payload |-> <<>>, signature |-> NoHeader,
     timestamp |-> NoHeader, secret |-> <<>>]

\* The answer of the webhook endpoint: the HTTP status it sent and whether
\* it went on to handle the event of the request.  No answer was sent when
\* verifyWebhookSignature is applied on its own.
Reply(status, handled) == [status |-> status, handled |-> handled]
NoReply == Reply(0, FALSE)

\* No caller is polling.
NoPoll == [loop |-> "none"]

\* The receiver before it handles the delivery it is about to be given.
ReceiverInit(deliveries) ==
    /\ now = BaseTime - 301
    /\ call \in deliveries
    /\ result = Return(FALSE)
    /\ reply = NoReply
    /\ poll = NoPoll

\* The client after `new Vloex('vs_live_key')`, with no call made yet.
ClientInit ==
    /\ client = Construction(Str("vs_live_key"), Undefined,
                             Vloex(Str("vs_live_key"), Undefined))
    /\ calls = [c \in CallIds |-> IdleCall]

Init == ReceiverInit(Deliveries \cup {NoDelivery}) /\ ClientInit

\* The receiver applies verifyWebhookSignature to the headers and the body
\* of a request, with the headers read as `req.headers[...] || ''`.
\* currentTime is the reading of the clock the call makes.
Verify(kind, payload, signature, timestamp, secret, currentTime) ==
    /\ now' = currentTime
    /\ call' = [kind |-> kind, payload |-> payload, signature |-> signature,
                timestamp |-> timestamp, secret |-> secret]
    /\ result' = verifyWebhookSignature(payload, HeaderOrEmpty(signature),
                                        HeaderOrEmpty(timestamp), secret, currentTime)
    /\ reply' = NoReply
    /\ UNCHANGED <<client, calls, poll>>

\* The pending delivery arrives and is verified.
VerifyDelivery ==
    /\ call.kind = "pending"
    /\ \E currentTime \in {t \in ClockValues : t >= now} :
           Verify("delivery", call.payload, call.signature, call.timestamp,
                  call.secret, currentTime)

\* const WEBHOOK_SECRET = process.env.VLOEX_WEBHOOK_SECRET || 'my_secret_key_123'
\* for the value env of the environment variable, empty when it is not set.
WEBHOOK_SECRET(env) ==
    IF env = <<>>
    THEN <<"m", "y", "_", "s", "e", "c", "r", "e", "t", "_", "k", "e", "y", "_",
           "1", "2", "3">>
    ELSE env

\* app.post('/api/vloex-webhook', ...): the pending delivery arrives at the
\* endpoint.  The headers are read as `req.headers[...] || ''`; the
\* signature is verified when WEBHOOK_SECRET and the signature are both
\* non-empty, and a request that fails is answered 401 before its event is
\* looked at; every other request has its event handled and is answered
\* 200.  An exception of the verification would be answered 500.
WebhookRequest ==
    /\ call.kind = "pending"
    /\ \E currentTime \in {t \in ClockValues : t >= now} :
           LET signature == HeaderOrEmpty(call.signature)
               timestamp == HeaderOrEmpty(call.timestamp)
               secret == WEBHOOK_SECRET(call.secret)
               checked == secret # <<>> /\ signature # <<>>
               verdict == verifyWebhookSignature(call.payload, signature,
                                                 timestamp, secret, currentTime)
           IN  /\ now' = currentTime
               /\ call' = [call EXCEPT !.kind = "webhook"]
               /\ result' = IF checked THEN verdict ELSE result
               /\ reply' = IF checked /\ verdict.threw # "none" THEN Reply(500, FALSE)
                           ELSE IF checked /\ ~verdict.value THEN Reply(401, FALSE)
                           ELSE Reply(200, TRUE)
    /\ UNCHANGED <<client, calls, poll>>

\* A delivery that was verified is sent again unchanged and verified at a
\* reading of the clock that is not earlier than the last one.
ReplayDelivery ==
    /\ call.kind \in {"delivery", "replay"}
    /\ \E currentTime \in {t \in ReplayClockValues : t >= now} :
           Verify("replay", call.payload, call.signature, call.timestamp,
                  call.secret, currentTime)

\* Where the digest starts in a signature header: after the first "=", or
\* at the start of a header without "=".
DigestStart(text) ==
    IF \E i \in 1..Len(text) : text[i] = "="
    THEN CHOOSE i \in 1..Len(text) :
             text[i] = "=" /\ \A m \in 1..(i - 1) : text[m] # "="
    ELSE 0

\* A delivery that verified is verified again, at the same reading of the
\* clock, with one character of its payload, of the secret or of its digest
\* changed.
TamperPayload ==
    /\ call.kind = "delivery" /\ result = Return(TRUE)
    /\ \E i \in 1..Len(call.payload) :
           \E c \in PayloadChars \ {call.payload[i]} :
               Verify("tampered payload", [call.payload EXCEPT ![i] = c],
                      call.signature, call.timestamp, call.secret, now)

TamperSecret ==
    /\ call.kind = "delivery" /\ result = Return(TRUE)
    /\ \E i \in 1..Len(call.secret) :
           \E c \in SecretChars \ {call.secret[i]} :
               Verify("tampered secret", call.payload, call.signature,
                      call.timestamp, [call.secret EXCEPT ![i] = c], now)

TamperDigest ==
    /\ call.kind = "delivery" /\ result = Return(TRUE)
    /\ LET text == call.signature.text
           start == DigestStart(text)
       IN  \E i \in (start + 1)..(start + DigestLen) :
               \E c \in TamperChars \ {text[i]} :
                   Verify("tampered digest", call.payload,
                          Header([text EXCEPT ![i] = c]),
                          call.timestamp, call.secret, now)

VerifierNext ==
    \/ VerifyDelivery
    \/ WebhookRequest
    \/ ReplayDelivery
    \/ TamperPayload
    \/ TamperSecret
    \/ TamperDigest

\* The receiver is given one delivery; no SDK call is made.
VerifierInit == ReceiverInit(Deliveries) /\ ClientInit

VerifierSpec == VerifierInit /\ [][VerifierNext]_vars

\* SDK calls are made; the receiver is given no delivery.
CallsInit == ReceiverInit({NoDelivery}) /\ ClientInit

ClientSpec == CallsInit /\ [][ClientNext]_vars

\* The life of one client: it is constructed, then one call is made on it.
\* A connection that has not stalled is taken to end: the response arrives
\* or the transport gives up.
LifecycleInit ==
    /\ ReceiverInit({NoDelivery})
    /\ client = NotConstructed
    /\ calls = [c \in CallIds |-> IdleCall]

LifecycleNext == Construct \/ CallNext(1)

LifecycleSpec ==
    /\ LifecycleInit
    /\ [][LifecycleNext]_vars
    /\ WF_vars(ResponseArrives(1) \/ FetchFails(1))

\* One call of videos.fromJourney, whose parameters are drawn beforehand.
JourneyInit ==
    /\ ReceiverInit({NoDelivery})
    /\ client = Construction(Str("vs_live_key"), Undefined,
                             Vloex(Str("vs_live_key"), Undefined))
    /\ \E params \in JourneyInputs :
           calls = [c \in CallIds |->
                      IF c = 1 THEN [IdleCall EXCEPT !.args = params] ELSE IdleCall]

JourneyNext ==
    \/ VideosFromJourney(1)
    \/ ResponseArrives(1)
    \/ FetchFails(1)
    \/ ConnectionStalls(1)

JourneySpec == JourneyInit /\ [][JourneyNext]_vars

-----------------------------------------------------------------------------
(* The polling loops: generateReleaseVideo of examples/github-release-     *)
(* video.js, and the two loops of README.md.  A loop holds the status of   *)
(* the Video it retrieved last (at first the one videos.create returned);  *)
(* videos.retrieve returns the status the job has at the vendor.           *)

\* const maxAttempts = 60
maxAttempts == 60

\* The job at the vendor moves forward: queued, processing, then completed
\* or failed.
JobSuccessors(status) ==
    CASE status = "queued" -> {"processing"}
      [] status = "processing" -> {"completed", "failed"}
      [] OTHER -> {}

\* A loop that is about to start for a job that videos.create returned as
\* queued or processing.
PollStart(loop, status) ==
    [loop |-> loop, pc |-> "test", attempt |-> 0, retrieves |-> 0,
     job |-> status, video |-> status, timedOut |-> FALSE]

PollStarts ==
    {PollStart(loop, status) : loop \in {"release", "quickstart", "option1"},
                               status \in {"queued", "processing"}}

\* The vendor moves the job forward.
JobAdvances ==
    /\ poll.loop # "none"
    /\ \E status \in JobSuccessors(poll.job) : poll' = [poll EXCEPT !.job = status]
    /\ UNCHANGED <<now, call, result, client, calls, reply>>

\* An iteration that returns only for a completed job.
ReleasePollCompletedOnly ==
    /\ poll.loop = "release" /\ poll.pc = "test"
    /\ poll.attempt < maxAttempts
    /\ poll' = [poll EXCEPT !.video = poll.job,
                            !.retrieves = @ + 1,
                            !.attempt = @ + 1,
                            !.pc = IF poll.job = "completed" THEN "returned"
                                   ELSE "test"]
    /\ UNCHANGED <<now, call, result, client, calls, reply>>

\* generateReleaseVideo: one iteration of `while (attempt < maxAttempts)`:
\* the wait of 5 seconds, the retrieve call, attempt++, and the return for
\* a status that is completed or failed.
ReleasePoll ==
    /\ poll.loop = "release" /\ poll.pc = "test"
    /\ poll.attempt < maxAttempts
    /\ poll' = [poll EXCEPT !.video = poll.job,
                            !.retrieves = @ + 1,
                            !.attempt = @ + 1,
                            !.pc = IF poll.job \in {"completed", "failed"}
                                   THEN "returned" ELSE "test"]
    /\ UNCHANGED <<now, call, result, client, calls, reply>>

\* generateReleaseVideo after the loop: `return await
\* vloex.videos.retrieve(video.id)`.
ReleaseTimeout ==
    /\ poll.loop = "release" /\ poll.pc = "test"
    /\ poll.attempt >= maxAttempts
    /\ poll' = [poll EXCEPT !.video = poll.job,
                            !.retrieves = @ + 1,
                            !.timedOut = TRUE,
                            !.pc = "returned"]
    /\ UNCHANGED <<now, call, result, client, calls, reply>>

\* README, Quick Start step 4: `while (true)` retrieves and breaks for a
\* status that is completed or failed; otherwise it waits 5 seconds.
QuickStartRetrieve ==
    /\ poll.loop = "quickstart" /\ poll.pc = "test"
    /\ poll' = [poll EXCEPT !.video = poll.job,
                            !.pc = IF poll.job \in {"completed", "failed"}
                                   THEN "exited" ELSE "sleeping"]
    /\ UNCHANGED <<now, call, result, client, calls, reply>>

QuickStartWake ==
    /\ poll.loop = "quickstart" /\ poll.pc = "sleeping"
    /\ poll' = [poll EXCEPT !.pc = "test"]
    /\ UNCHANGED <<now, call, result, client, calls, reply>>

\* README, Option 1: the test of `while (video.status !== 'completed')`.
Option1Test ==
    /\ poll.loop = "option1" /\ poll.pc = "test"
    /\ poll' = [poll EXCEPT !.pc = IF poll.video # "completed" THEN "sleeping"
                                   ELSE "exited"]
    /\ UNCHANGED <<now, call, result, client, calls, reply>>

\* README, Option 1: the body of the loop, the wait of 5 seconds and
\* `video = await vloex.videos.retrieve(video.id)`.
Option1Retrieve ==
    /\ poll.loop = "option1" /\ poll.pc = "sleeping"
    /\ poll' = [poll EXCEPT !.video = poll.job, !.pc = "test"]
    /\ UNCHANGED <<now, call, result, client, calls, reply>>

\* A step of the loop that is running.
LoopStep ==
    \/ ReleasePoll
    \/ ReleaseTimeout
    \/ QuickStartRetrieve
    \/ QuickStartWake
    \/ Option1Test
    \/ Option1Retrieve

PollInit ==
    /\ now = BaseTime - 301
    /\ call = NoDelivery
    /\ result = Return(FALSE)
    /\ reply = NoReply
    /\ ClientInit
    /\ poll \in PollStarts

PollNext == LoopStep \/ JobAdvances

\* The loop keeps running: its timers fire and its retrieve calls return.
PollSpec == PollInit /\ [][PollNext]_vars /\ WF_vars(LoopStep)

\* The loop keeps running and the job does not stay queued or processing
\* for ever.
EndingJobSpec == PollInit /\ [][PollNext]_vars /\ WF_vars(LoopStep) /\ WF_vars(JobAdvances)

Next == VerifierNext \/ ClientNext

Spec == Init /\ [][Next]_vars

-----------------------------------------------------------------------------
(* Properties of verifyWebhookSignature, checked under VerifierSpec.       *)

\* verifyWebhookSignature has been applied to a delivery, as sent, sent
\* again or tampered with.
Verified == call.kind \notin {"pending", "webhook"}

\* The timestamp header is the decimal text of the stamped time.
DecimalTimestamp == call.timestamp = Header(ToDecimal(BaseTime))

\* Seconds between the receiver's clock and the stamped time.
ClockDistance == IF now < BaseTime THEN BaseTime - now ELSE now - BaseTime

\* The digest the sender's algorithm gives for the verified arguments.
ExpectedDigest == SenderDigest(call.payload, call.timestamp, call.secret)

\* The signature header is the expected digest, bare or as "sha256=<hex>".
CorrectSignature ==
    \/ call.signature = Header(ExpectedDigest)
    \/ call.signature = Header(Sha256Prefix \o ExpectedDigest)

\* C1 (round trip): a delivery whose timestamp is a decimal integer within
\* 300 seconds of the clock and whose signature is the lowercase hex HMAC of
\* timestamp + "." + payload under the secret, bare or as "sha256=<hex>",
\* verifies as true, for every secret and payload.
C1_RoundTrip ==
    (call.kind = "delivery" /\ DecimalTimestamp /\ ClockDistance <= 300
        /\ CorrectSignature)
    => result = Return(TRUE)

C1_Witness ==
    /\ call.kind = "delivery" /\ DecimalTimestamp /\ now = BaseTime + 300
    /\ call.signature = Header(Sha256Prefix \o ExpectedDigest)
    /\ call.secret = <<"j", "k">> /\ call.payload # <<>>
    /\ result = Return(TRUE)

\* C2 (tamper rejection): after a delivery verified, the same delivery with
\* one character of the payload, of the secret or of the provided digest
\* changed verifies as false.
C2_TamperRejected ==
    call.kind \in {"tampered payload", "tampered secret", "tampered digest"}
    => result = Return(FALSE)

C2_Witness ==
    /\ call.kind = "tampered digest" /\ DecimalTimestamp /\ now = BaseTime
    /\ call.signature.text[Len(call.signature.text)] = "1"
    /\ result = Return(FALSE)

\* C3 (freshness window): a decimal timestamp more than 300 seconds before
\* or after the clock is rejected whatever the signature, the correct
\* digest included; at a distance of 300 seconds or less the correct digest
\* is accepted, so the freshness check did not reject it.
C3_FreshnessWindow ==
    (call.kind = "delivery" /\ DecimalTimestamp)
    => /\ ClockDistance > 300 => result = Return(FALSE)
       /\ (ClockDistance <= 300 /\ call.signature = Header(ExpectedDigest))
              => result = Return(TRUE)

C3_Witness ==
    /\ call.kind = "delivery" /\ DecimalTimestamp /\ now = BaseTime - 301
    /\ call.signature = Header(ExpectedDigest)
    /\ result = Return(FALSE)

\* The timestamp header is no decimal integer: absent, empty, letters, or
\* digits followed by a letter.
MalformedTimestamp ==
    \/ call.timestamp = NoHeader
    \/ call.timestamp = Header(<<>>)
    \/ call.timestamp = Header(<<"a", "b", "c">>)
    \/ call.timestamp = Header(ToDecimal(BaseTime) \o <<"x">>)

\* C4 (as claimed): a timestamp header that is no decimal integer makes the
\* verifier return false for every payload, secret and signature.
C4_MalformedTimestampRejected ==
    (Verified /\ MalformedTimestamp) => result = Return(FALSE)

\* C5: an absent or empty signature header makes the verifier return false
\* for every payload, timestamp and secret.
C5_NoSignatureRejected ==
    (Verified /\ (call.signature = NoHeader \/ call.signature = Header(<<>>)))
    => result = Return(FALSE)

C5_Witness ==
    /\ call.kind = "delivery" /\ call.signature = NoHeader
    /\ DecimalTimestamp /\ now = BaseTime
    /\ result = Return(FALSE)

\* The digest of a signature header as the specification extracts it:
\* everything after the first "=", or the whole header when it has no "=".
DigestAfterFirstEquals(text) ==
    IF DigestStart(text) = 0 THEN text
    ELSE SubSeq(text, DigestStart(text) + 1, Len(text))

\* C6 (as claimed): when the freshness check passes, the verifier's result
\* is the comparison of the expected digest with everything after the first
\* "=" of the signature header (the whole header when it has no "=").
C6_DigestIsRestAfterFirstEquals ==
    (call.kind = "delivery" /\ DecimalTimestamp /\ ClockDistance <= 300)
    => result = Return(DigestAfterFirstEquals(HeaderOrEmpty(call.signature))
                          = ExpectedDigest)

\* C7 (totality): every verification returns a boolean and none throws; a
\* provided digest (the text the verifier takes out of the signature header)
\* whose length is not the expected digest's length gives false.
C7_NeverThrows ==
    Verified
    => /\ result.threw = "none"
       /\ Len(ProvidedSignature(HeaderOrEmpty(call.signature))) # DigestLen
              => result = Return(FALSE)

C7_Witness ==
    /\ call.kind = "delivery" /\ DecimalTimestamp /\ now = BaseTime
    /\ call.signature = Header(SubSeq(ExpectedDigest, 1, DigestLen - 1))
    /\ result = Return(FALSE)

\* The expected digest occurs somewhere in the signature header.
SignatureContainsExpectedDigest ==
    LET text == HeaderOrEmpty(call.signature)
    IN  \E i \in 0..(Len(text) - DigestLen) :
            SubSeq(text, i + 1, i + DigestLen) = ExpectedDigest

\* C8 (as claimed): with a zero-length secret every verification returns
\* false.
C8_EmptySecretAlwaysFalse ==
    (Verified /\ call.secret = <<>>) => result = Return(FALSE)

\* C8 (amended): with a zero-length secret no verification throws; the empty
\* secret is a key like any other: the correct HMAC under the empty key is
\* accepted when the timestamp is within 300 seconds, and a signature header
\* that does not hold that HMAC is rejected.
C8_EmptySecretIsAKey ==
    (Verified /\ call.secret = <<>>)
    => /\ result.threw = "none"
       /\ (DecimalTimestamp /\ ClockDistance <= 300 /\ CorrectSignature)
              => result = Return(TRUE)
       /\ ~SignatureContainsExpectedDigest => result = Return(FALSE)

C8_Witness ==
    /\ call.kind = "delivery" /\ call.secret = <<>>
    /\ DecimalTimestamp /\ now = BaseTime /\ CorrectSignature
    /\ result = Return(TRUE)

-----------------------------------------------------------------------------
(* Properties of the SDK's error handling, checked under ClientSpec.       *)

\* Call c has settled after it received a response whose status is not 2xx.
SettledOnNon2xx(c) ==
    /\ calls[c].pc = "settled"
    /\ calls[c].response # NoResponse
    /\ (calls[c].response.status < 200 \/ calls[c].response.status > 299)

\* The body of the response call c received is a JSON object.
BodyIsJsonObject(c) ==
    calls[c].response.body.json /\ calls[c].response.body.value.t = "object"

\* C9 (as claimed): a create or retrieve call that received a non-2xx
\* response, whatever its body, is rejected with a VloexError whose
\* statusCode is the status of the response.
C9_Non2xxIsVloexError ==
    \A c \in CallIds :
        SettledOnNon2xx(c)
        => /\ calls[c].outcome.state = "rejected"
           /\ calls[c].outcome.error.name = "VloexError"
           /\ calls[c].outcome.error.statusCode = calls[c].response.status

\* The text of a JSON value that is a string or null.
JsonText(v) == IF v.t = "string" THEN v.s ELSE "null"

\* C10 (as claimed): on a non-2xx response with a JSON object body the
\* VloexError message is the detail field when the body has one, otherwise
\* the message field when it has one, otherwise 'API request failed'.
C10_MessageIsDetailWhenPresent ==
    \A c \in CallIds :
        (SettledOnNon2xx(c) /\ BodyIsJsonObject(c))
        => LET fields == calls[c].response.body.value.fields
           IN  calls[c].outcome.error.message =
                   IF "detail" \in DOMAIN fields THEN JsonText(fields.detail)
                   ELSE IF "message" \in DOMAIN fields THEN JsonText(fields.message)
                   ELSE "API request failed"

\* The body has the field and it is a string that is not empty.
HasNonEmpty(fields, key) ==
    key \in DOMAIN fields /\ fields[key].t = "string" /\ fields[key].s # ""

\* C10 (amended): on a non-2xx response with a JSON object body whose detail
\* and message are strings, null or absent, the call is rejected with a
\* VloexError whose message is the detail field when it is a non-empty
\* string, otherwise the message field when it is a non-empty string,
\* otherwise 'API request failed'.
C10_MessageIsFirstNonEmpty ==
    \A c \in CallIds :
        (SettledOnNon2xx(c) /\ BodyIsJsonObject(c))
        => LET fields == calls[c].response.body.value.fields
           IN  /\ calls[c].outcome.state = "rejected"
               /\ calls[c].outcome.error.name = "VloexError"
               /\ calls[c].outcome.error.message =
                      IF HasNonEmpty(fields, "detail") THEN fields.detail.s
                      ELSE IF HasNonEmpty(fields, "message") THEN fields.message.s
                      ELSE "API request failed"

C10_Witness ==
    \E c \in CallIds :
        /\ SettledOnNon2xx(c) /\ calls[c].op = "retrieve"
        /\ calls[c].response.status = 401
        /\ calls[c].response.body =
               JsonBody(Obj([detail |-> Str(""), message |-> Str("Unauthorized")]))
        /\ calls[c].outcome.error.message = "Unauthorized"

-----------------------------------------------------------------------------
(* Properties of the SDK's requests and results, checked under ClientSpec  *)
(* and LifecycleSpec.                                                      *)

\* Call c has settled after it received a response whose status is 2xx and
\* whose body is a JSON object.
SettledOn2xxObject(c) ==
    /\ calls[c].pc = "settled"
    /\ calls[c].response # NoResponse
    /\ calls[c].response.status >= 200 /\ calls[c].response.status <= 299
    /\ BodyIsJsonObject(c)

\* The field of a JSON object, undefined when the object has none.
Field(fields, key) == IF key \in DOMAIN fields THEN fields[key] ELSE Undefined

C12_RetrieveResult ==
    \A c \in CallIds :
        (calls[c].op = "retrieve" /\ SettledOn2xxObject(c))
        => LET fields == calls[c].response.body.value.fields
           IN  /\ calls[c].outcome.state = "resolved"
               /\ calls[c].outcome.value.id = Field(fields, "id")
               /\ calls[c].outcome.value.status = Field(fields, "status")
               /\ calls[c].outcome.value.url =
                      IF "video_url" \in DOMAIN fields THEN fields.video_url
                      ELSE Field(fields, "url")
               /\ calls[c].outcome.value.error =
                      IF "error_message" \in DOMAIN fields THEN fields.error_message
                      ELSE Field(fields, "error")

\* The caller provided the text: a string of at least one character.
Provided(v) == v.t = "string" /\ v.s # ""

\* C13: the body videos.create sends is a JSON object that has the script
\* under the key input and an object under the key options (the empty
\* object when the caller gave none); it has the key webhook_url exactly
\* when the caller provided a webhook URL and the key webhook_secret exactly
\* when the caller provided a webhook secret, each with the caller's value;
\* it has no other key.
C13_CreateBody ==
    \A c \in CallIds :
        calls[c].op = "create"
        => LET params == calls[c].args
               body == calls[c].request.body
               fields == body.value.fields
           IN  /\ body.json /\ body.value.t = "object"
               /\ DOMAIN fields \subseteq
                      {"input", "options", "webhook_url", "webhook_secret"}
               /\ "input" \in DOMAIN fields /\ fields.input = params.script
               /\ "options" \in DOMAIN fields
               /\ fields.options = IF params.options = Undefined THEN EmptyObject
                                   ELSE params.options
               /\ "webhook_url" \in DOMAIN fields <=> Provided(params.webhookUrl)
               /\ Provided(params.webhookUrl)
                      => fields.webhook_url = params.webhookUrl
               /\ "webhook_secret" \in DOMAIN fields <=> Provided(params.webhookSecret)
               /\ Provided(params.webhookSecret)
                      => fields.webhook_secret = params.webhookSecret

C13_Witness ==
    \E c, d \in CallIds :
        /\ calls[c].op = "create" /\ calls[d].op = "create"
        /\ calls[c].args.webhookUrl = Undefined
        /\ DOMAIN calls[c].request.body.value.fields = {"input", "options"}
        /\ calls[c].request.body.value.fields.options = EmptyObject
        /\ calls[d].args.webhookUrl = Str("https://your-app.com/webhook")
        /\ calls[d].args.webhookSecret = Str("my_secret_key_123")
        /\ DOMAIN calls[d].request.body.value.fields =
               {"input", "options", "webhook_url", "webhook_secret"}

\* The text "/v1/jobs/<id>/status", character by character.
JobStatusPathOf(id) ==
    <<"/", "v", "1", "/", "j", "o", "b", "s", "/">> \o id
        \o <<"/", "s", "t", "a", "t", "u", "s">>

C16_ExactlyOneRequest ==
    \A c \in CallIds :
        /\ calls[c].pc = "idle" => calls[c].fetches = 0
        /\ calls[c].pc # "idle"
               => /\ calls[c].op \in {"create", "retrieve", "fromJourney"}
                  /\ calls[c].fetches = 1

C16_Witness ==
    \E c, d \in CallIds :
        /\ calls[c].op = "fromJourney" /\ calls[c].pc = "settled"
        /\ calls[c].outcome = Rejected(TransportError)
        /\ calls[c].fetches = 1
        /\ calls[d].op = "create" /\ SettledOnNon2xx(d)
        /\ calls[d].outcome.state = "rejected"
        /\ calls[d].fetches = 1

\* C17 (as claimed): every call of videos.create or videos.retrieve that
\* has started eventually settles: it resolves or rejects, also when no
\* response ever arrives.
C17_EveryCallCompletes ==
    \A c \in CallIds :
        (calls[c].op \in {"create", "retrieve"} /\ calls[c].pc # "idle")
            ~> (calls[c].pc = "settled")

\* Call c has settled without a response: the transport failed.
SettledOnTransportFailure(c) ==
    calls[c].pc = "settled" /\ calls[c].response = NoResponse

RequestAlone(c) ==
    LET cl == Vloex(Str("vs_live_key"), Undefined).value
    IN  CASE calls[c].op = "create" ->
               FetchRequest(cl, "POST", GeneratePath, CreatePayload(calls[c].args),
                            calls[c].args.idempotencyKey)
          [] calls[c].op = "retrieve" ->
               FetchRequest(cl, "GET", StatusPath(calls[c].args.id), Undefined,
                            Undefined)
          [] calls[c].op = "fromJourney" ->
               FetchRequest(cl, "POST", FromJourneyPath,
                            JourneyPayload(calls[c].args), Undefined)

\* How that call settles on what call c received.
OutcomeAlone(c) ==
    IF calls[c].response = NoResponse THEN Rejected(TransportError)
    ELSE HandleResponse(RequestAlone(c).url.path, calls[c].response)

\* C19: with two calls in progress on one client under every interleaving
\* of their steps, each call has given fetch the request, and has settled
\* the way, of the same call made alone with the same response; the
\* client's apiKey and baseUrl are the ones set at construction.
C19_CallsDoNotInterfere ==
    /\ client.outcome = Return([apiKey |-> "vs_live_key",
                                baseUrl |-> "https://api.vloex.com"])
    /\ \A c \in CallIds :
           /\ calls[c].pc # "idle" => calls[c].request = RequestAlone(c)
           /\ calls[c].pc = "settled" => calls[c].outcome = OutcomeAlone(c)

C19_Witness ==
    /\ calls[1].op = "create" /\ calls[1].pc = "settled"
    /\ calls[1].outcome.state = "resolved"
    /\ calls[2].op = "retrieve" /\ calls[2].pc = "settled"
    /\ calls[2].args.id = <<"a", "b", "c", "-", "1", "2", "3">>
    /\ calls[2].response =
           Response(200, JsonBody(Obj([id |-> Str("abc-123"),
                                       status |-> Str("completed"),
                                       video_url |-> Str("https://x/y.mp4")])))
    /\ calls[2].outcome.value.url = Str("https://x/y.mp4")

\* The statuses of a Video, and those in which a job has ended.
VideoStatuses == {Str("queued"), Str("processing"), Str("completed"), Str("failed")}
TerminalStatuses == {Str("completed"), Str("failed")}

\* C20 (as claimed): a Video that videos.create or videos.retrieve resolves
\* with has a status among queued, processing, completed and failed, and
\* has a url or an error only when its status is completed or failed.
C20_VideoWellFormed ==
    \A c \in CallIds :
        (/\ calls[c].op \in {"create", "retrieve"}
         /\ calls[c].pc = "settled"
         /\ calls[c].outcome.state = "resolved")
        => LET video == calls[c].outcome.value
           IN  /\ video.status \in VideoStatuses
               /\ (video.url # Undefined \/ video.error # Undefined)
                      => video.status \in TerminalStatuses

\* C21: the request of videos.create has the header Idempotency-Key, with
\* the caller's value, exactly when the caller supplied an idempotencyKey;
\* the requests of videos.retrieve and videos.fromJourney never have it.
C21_IdempotencyKeyHeader ==
    \A c \in CallIds :
        calls[c].pc # "idle"
        => LET headers == calls[c].request.headers
           IN  /\ calls[c].op = "create"
                      => /\ "Idempotency-Key" \in DOMAIN headers
                                <=> Provided(calls[c].args.idempotencyKey)
                         /\ Provided(calls[c].args.idempotencyKey)
                                => headers["Idempotency-Key"] =
                                       <<calls[c].args.idempotencyKey.s>>
               /\ calls[c].op \in {"retrieve", "fromJourney"}
                      => "Idempotency-Key" \notin DOMAIN headers

C21_Witness ==
    \E c, d \in CallIds :
        /\ calls[c].op = "create"
        /\ calls[c].args.idempotencyKey = Str("uuid-1")
        /\ calls[c].request.headers["Idempotency-Key"] = <<"uuid-1">>
        /\ calls[d].op = "create"
        /\ calls[d].args.idempotencyKey = Undefined
        /\ DOMAIN calls[d].request.headers = {"Authorization", "Content-Type"}

\* C22: the clock never goes back, and whenever a delivery that carries
\* the correct digest for its decimal timestamp is verified again, it is
\* accepted if the clock is then within 300 seconds of the timestamp and
\* rejected if the clock is then more than 300 seconds past it; once a
\* verification found the clock more than 300 seconds past the timestamp,
\* every later verification of the delivery rejects it.
C22_ReplayWindow ==
    [][(call'.kind = "replay" /\ DecimalTimestamp /\ CorrectSignature)
       => /\ now' >= now
          /\ (now' >= BaseTime - 300 /\ now' <= BaseTime + 300)
                 => result' = Return(TRUE)
          /\ now' > BaseTime + 300 => result' = Return(FALSE)
          /\ now > BaseTime + 300 => result' = Return(FALSE)]_vars

C22_Witness ==
    /\ call.kind = "replay" /\ DecimalTimestamp /\ CorrectSignature
    /\ call.secret = <<"j", "k">>
    /\ now = BaseTime + 600
    /\ result = Return(FALSE)

\* A request has been answered by the webhook endpoint, which runs with
\* the webhook secret of the sender in VLOEX_WEBHOOK_SECRET.
AnsweredWithSecret == call.kind = "webhook" /\ call.secret # <<>>

\* What verifyWebhookSignature returns for the answered request.
RequestVerifies ==
    verifyWebhookSignature(call.payload, HeaderOrEmpty(call.signature),
                           HeaderOrEmpty(call.timestamp), call.secret, now)
        = Return(TRUE)

\* C24 (as claimed): with a webhook secret configured, the endpoint handles
\* the event and answers 200 only for a request whose signature
\* verification returns true; every other request, one without a signature
\* header included, is answered 401 and its event is not handled.
C24_OnlyVerifiedRequestsHandled ==
    AnsweredWithSecret
    => /\ (reply.status = 200 \/ reply.handled) => RequestVerifies
       /\ ~RequestVerifies => (reply.status = 401 /\ ~reply.handled)

\* The result of the status mapping for the body data: url from video_url
\* or url, error from error_message or error.
StatusMapping(data) ==
    [id |-> Get(data, "id"),
     status |-> Get(data, "status"),
     url |-> Or(Get(data, "video_url"), Get(data, "url")),
     error |-> Or(Get(data, "error_message"), Get(data, "error"))]

\* C25 (as claimed): for every id, ids that contain "/generate" included,
\* a videos.retrieve call that received a 2xx response with a JSON object
\* body resolves with the status mapping of that body.
C25_MappingByOperation ==
    \A c \in CallIds :
        (calls[c].op = "retrieve" /\ SettledOn2xxObject(c))
        => calls[c].outcome =
               Resolved(StatusMapping(calls[c].response.body.value))

\* The caller gave the parameter: a text of at least one character, a
\* number other than 0, or a list.
Given(v) ==
    \/ v.t = "string" /\ v.s # ""
    \/ v.t = "number" /\ v.n # 0
    \/ v.t = "array"

-----------------------------------------------------------------------------
(* Properties of the polling loops, checked under PollSpec and             *)
(* EndingJobSpec.                                                          *)

\* C27: the polling loop of generateReleaseVideo returns; it makes at most
\* 60 retrieve calls inside the loop and goes on only after a poll whose
\* status is neither completed nor failed; when it returns from inside the
\* loop, the last poll was the first with a status completed or failed and
\* no retrieve call followed it; when 60 polls passed without such a
\* status, it has made exactly one retrieve call more and returned.
C27_ReleaseLoopTerminates ==
    /\ [](poll.loop = "release"
          => /\ poll.attempt <= 60
             /\ poll.pc = "test"
                    => /\ poll.retrieves = poll.attempt
                       /\ poll.attempt > 0 => poll.video \notin {"completed", "failed"}
             /\ (poll.pc = "returned" /\ ~poll.timedOut)
                    => /\ poll.video \in {"completed", "failed"}
                       /\ poll.retrieves = poll.attempt
             /\ (poll.pc = "returned" /\ poll.timedOut)
                    => /\ poll.attempt = 60
                       /\ poll.retrieves = 61)
    /\ (poll.loop = "release") ~> (poll.pc = "returned")

C27_Witness ==
    /\ poll.loop = "release" /\ poll.pc = "returned" /\ poll.timedOut
    /\ poll.attempt = 60 /\ poll.retrieves = 61
    /\ poll.video = "processing"

\* C28 (as claimed): for a job that moves forward and ends completed or
\* failed, the loop of Quick Start step 4 and the loop `while (video.status
\* !== 'completed')` each exit.
C28_ReadmeLoopsExit ==
    (poll.loop \in {"quickstart", "option1"}) ~> (poll.pc = "exited")

=============================================================================
